---- MODULE Spec2Model ----
(***************************************************************************)
(* Two-tier response cache of the High Performance REST API:               *)
(*   CacheManager (middleware/cache.js)  - memory tier (node-cache) in     *)
(*                                         front of the Redis tier         *)
(*   RedisManager (config/redis.js)      - soft-failing Redis wrapper      *)
(*   route handlers (routes/*.js)        - origin handlers and writers     *)
(*   HighPerformanceAPI.start (server.js)- process start-up                *)
(*                                                                         *)
(* One Node.js process is modelled.  JavaScript runs a continuation to its *)
(* next await without interleaving, so every action below is the code      *)
(* between two awaits.  Time is counted in units of 60 seconds.            *)
(*                                                                         *)
(* Further specifications model, each on its own variable, the cluster     *)
(* master and its workers (cluster.js), DatabaseManager.transaction with   *)
(* the order transaction (config/database.js, routes/orders.js), the       *)
(* shutdown of a worker (server.js) and errorHandler.                      *)
(***************************************************************************)
EXTENDS Integers, Sequences, FiniteSets, TLC

VARIABLES
    boot,       \* HighPerformanceAPI.start(): position and outcome
    redisMode,  \* the Redis server as seen by the client: up / down / hung
    now,        \* Date.now(), in units of 60 s
    memData,    \* CacheManager.memoryCache.data : key -> [v, t]
    remote,     \* the Redis keyspace            : key -> [s, exp]
    pending,    \* SETEX commands issued by redisClient.set, not yet answered
    db,         \* the database: resource family -> current payload
    req,        \* the read request in flight through cache(ttl)
    wr,         \* the write request in flight through a mutating route
    served,     \* requests accepted so far
    stats,      \* CacheManager.memoryCache.stats: the hit and miss counters
    redisConn,  \* the Redis client's socket: its reconnect attempts
    master,     \* ClusterManager in the cluster's master process
    cluster,    \* the workers of the cluster, each with its own CacheManager
    tx,         \* DatabaseManager.transaction calls and the rows they work on
    proc,       \* HighPerformanceAPI.shutdown: the worker's way to its exit
    eh          \* errorHandler: the error raised and the response it builds

vars == <<boot, redisMode, now, memData, remote, pending, db, req, wr, served,
          stats, redisConn, master, cluster, tx, proc, eh>>

----------------------------------------------------------------------------
(* Bounds of the model *)

MaxTime == 2        \* the clock stops here
MaxPayload == 1     \* payloads are 0..MaxPayload; 0 stands for a falsy JSON value
MaxPending == 1     \* unanswered SETEX commands
MaxRequests == 2    \* requests accepted in one run

\* maxKeys of the memory tier, as configured by MEMORY_CACHE_MAX
MaxKeys == 1

(* Route TTLs, in units of 60 s *)
TtlProducts == 3
TtlProduct == 5
TtlOrders == 1

Payloads == 0..MaxPayload

\* body sent by errorHandler (an object, hence truthy)
ErrorBody == -1
\* body written by Express' final handler when an error handler itself throws
FinalBody == -3

Bodies == Payloads \cup {ErrorBody}

\* An optional JavaScript value: <<>> is null/undefined, <<v>> is the value v.
Nil == <<>>
Some(v) == <<v>>

\* JavaScript ToBoolean of an optional value, as used by `if (x)`.
Truthy(x) == x # Nil /\ x[1] # 0

----------------------------------------------------------------------------
(* Requests and keys *)

\* the resource families that the modelled reads show
Families == {"products", "orders"}

\* The read requests of the cached routes.  url is req.originalUrl and query is
\* req.query, both as token sequences.
GetProducts == [method |-> "GET", url |-> <<"/api/", "products">>, query |-> <<>>,
                user |-> Nil, family |-> "products", ttl |-> TtlProducts, useMemory |-> TRUE]
HeadProducts == [method |-> "HEAD", url |-> <<"/api/", "products">>, query |-> <<>>,
                user |-> Nil, family |-> "products", ttl |-> TtlProducts, useMemory |-> TRUE]
GetProduct == [method |-> "GET", url |-> <<"/api/", "products", "/", "7">>, query |-> <<>>,
                user |-> Nil, family |-> "products", ttl |-> TtlProduct, useMemory |-> TRUE]
GetOrders == [method |-> "GET", url |-> <<"/api/", "orders">>, query |-> <<>>,
                user |-> Some("u1"), family |-> "orders", ttl |-> TtlOrders, useMemory |-> TRUE]

ReadRequests == {GetProducts, HeadProducts, GetProduct, GetOrders}

\* a key that leaves the caller out
generateKeyNoUser(r) == <<"api", r.method>> \o r.url \o r.query

\* a key that depends on the time of the call
generateKeyTimed(r) == <<"api", r.method>> \o r.url \o r.query \o <<ToString(now)>>

\* CacheManager.generateKey: `api:${method}:${originalUrl}:${JSON.stringify(query)}:${userId}`
generateKey(r) ==
    LET userId == IF r.user # Nil THEN <<r.user[1]>> ELSE <<"anonymous">>
    IN  <<"api", r.method>> \o r.url \o r.query \o userId

CachedRequests == {r \in ReadRequests : r.method = "GET"}
CacheKeys == {generateKey(r) : r \in CachedRequests}

\* String.prototype.startsWith on token sequences
StartsWith(key, pattern) ==
    /\ Len(pattern) <= Len(key)
    /\ SubSeq(key, 1, Len(pattern)) = pattern

\* String.prototype.includes on token sequences
Includes(key, pattern) ==
    \E i \in 1..(Len(key) - Len(pattern) + 1) :
        SubSeq(key, i, i + Len(pattern) - 1) = pattern

----------------------------------------------------------------------------
(* Partial maps *)

Put(m, k, e) == [x \in (DOMAIN m) \cup {k} |-> IF x = k THEN e ELSE m[x]]
Drop(m, ks) == [x \in (DOMAIN m) \ ks |-> m[x]]
EmptyMap == [x \in {} |-> 0]

----------------------------------------------------------------------------
(* The memory tier: node-cache with maxKeys and deleteOnExpire *)

\* an expiry test that is one time unit late
NC_expiredLate(e, t) == e.t # 0 /\ e.t + 1 < t

\* NodeCache._check: an entry is expired when its t is set and lies in the past
NC_expired(e, t) == e.t # 0 /\ e.t < t

\* a wrap that stores every entry without an expiry time
NC_wrapForever(v, ttl, t) == [v |-> v, t |-> 0]

\* NodeCache._wrap: the livetime of an entry stored with ttl
NC_wrap(v, ttl, t) == [v |-> v, t |-> IF ttl = 0 THEN 0 ELSE t + ttl]

\* NodeCache.get: [data, ret]; an expired entry is deleted and reads as undefined
NC_get(data, k, t) ==
    IF k \in DOMAIN data /\ ~NC_expired(data[k], t)
    THEN [data |-> data, ret |-> Some(data[k].v)]
    ELSE [data |-> Drop(data, {k}), ret |-> Nil]

\* a counter update that starts the misses afresh on every hit
NC_countReset(st, ret) ==
    IF ret # Nil THEN [hits |-> st.hits + 1, misses |-> 0] ELSE [st EXCEPT !.misses = @ + 1]

\* NodeCache.get counts: stats.hits++ when it returns a value, stats.misses++
\* when the key is absent or expired
NC_count(st, ret) ==
    IF ret # Nil THEN [st EXCEPT !.hits = @ + 1] ELSE [st EXCEPT !.misses = @ + 1]

\* a set that ignores maxKeys
NC_setUnbounded(data, k, v, ttl, t) ==
    [threw |-> FALSE, data |-> Put(data, k, NC_wrap(v, ttl, t))]

\* NodeCache.set: throws ECACHEFULL when stats.keys >= maxKeys, else stores
NC_set(data, k, v, ttl, t) ==
    IF Cardinality(DOMAIN data) >= MaxKeys
    THEN [threw |-> TRUE, data |-> data]
    ELSE [threw |-> FALSE, data |-> Put(data, k, NC_wrap(v, ttl, t))]

\* NodeCache.keys
NC_keys(data) == DOMAIN data

\* NodeCache._checkData: the periodic sweep deletes every expired entry
NC_checkData(data, t) == Drop(data, {k \in DOMAIN data : NC_expired(data[k], t)})

----------------------------------------------------------------------------
(* The Redis tier *)

\* JSON.stringify / JSON.parse on the payloads of the model
Stringify(v) == ToString(v)

\* a parser that drops the sign of a number
ParseUnsigned(s) ==
    LET v == CHOOSE x \in Bodies : ToString(x) = s
    IN  IF v < 0 THEN 0 - v ELSE v

Parse(s) == CHOOSE v \in Bodies : ToString(v) = s

\* a key of the keyspace is readable until its expiry time
RedisLive(e, t) == t < e.exp

\* the reply of the server to GET key: Nil or the stored string
ClientGet(k) ==
    IF k \in DOMAIN remote /\ RedisLive(remote[k], now) THEN Some(remote[k].s) ELSE Nil

\* Outcome of a RedisManager method when the client call raises (clientRaises)
\* or answers: raised says whether the method throws to its caller, value is
\* what the caller gets back.  Every method but ping has a try/catch.
RedisOps == {"get", "set", "del", "exists", "flushAll", "ping"}
RedisManager_call(op, clientRaises) ==
    IF clientRaises
    THEN CASE op = "get" -> [raised |-> FALSE, value |-> "null"]
           [] op \in {"set", "del", "exists", "flushAll"} -> [raised |-> FALSE, value |-> "false"]
           [] op = "ping" -> [raised |-> TRUE, value |-> "error"]
    ELSE CASE op = "get" -> [raised |-> FALSE, value |-> "value"]
           [] op \in {"set", "del", "flushAll"} -> [raised |-> FALSE, value |-> "true"]
           [] op = "exists" -> [raised |-> FALSE, value |-> "count"]
           [] op = "ping" -> [raised |-> FALSE, value |-> "PONG"]

\* RedisManager.get: value ? JSON.parse(value) : null; a client error gives null
RedisManager_get(k) ==
    IF RedisManager_call("get", redisMode = "down").value = "null" THEN Nil
    ELSE IF ClientGet(k) # Nil THEN Some(Parse(ClientGet(k)[1])) ELSE Nil

----------------------------------------------------------------------------
(* CacheManager.invalidatePattern: delete every memory key that includes the
   pattern; the Redis tier is left alone (TODO in the source) *)

\* the keys a prefix test would select
PatternKeysPrefix(data, pattern) == {k \in NC_keys(data) : StartsWith(k, pattern)}

PatternKeys(data, pattern) == {k \in NC_keys(data) : Includes(k, pattern)}

invalidatePattern(data, pattern) == Drop(data, PatternKeys(data, pattern))

----------------------------------------------------------------------------
(* Initial state *)

NoResp == [status |-> 0, body |-> Nil, by |-> "none", xcache |-> "none"]
NoOut == [status |-> 0, body |-> Nil]

IdleReq == [pc |-> "idle", rq |-> GetProducts, key |-> <<>>, wrapped |-> FALSE,
            xcache |-> "none", out |-> NoOut, resp |-> NoResp, getErr |-> FALSE,
            caught |-> FALSE]

IdleWr == [pc |-> "idle", route |-> "none", status |-> 0, todo |-> <<>>,
           invalidated |-> <<>>, purged |-> FALSE]

\* node-cache starts with its counters at zero
NoStats == [hits |-> 0, misses |-> 0]

\* the socket is connected: no reconnect attempt is under way
IdleConn == [pc |-> "ready", retries |-> 0, delay |-> 0, err |-> FALSE]

\* the modelled process is a worker: it runs no ClusterManager of its own
NoMaster == [pc |-> "none", env |-> Nil, cpus |-> 0, numWorkers |-> Nil, forked |-> 0]

\* one process on its own: no sibling worker is modelled
NoCluster == [pc |-> "none"]

\* no transaction is under way
NoTx == [pc |-> "none"]

\* no signal has arrived
NoProc == [pc |-> "running"]

\* no error has reached errorHandler
NoErr == [pc |-> "none"]

\* Redis outlives the process: at start it is empty or holds one entry that an
\* earlier run captured.
InitRemotes ==
    {EmptyMap} \cup
    {Put(EmptyMap, generateKey(r), [s |-> Stringify(v), exp |-> r.ttl]) :
        r \in CachedRequests, v \in Payloads}

Init ==
    /\ boot = [pc |-> "dbQuery", dbOk |-> FALSE, code |-> 0]
    /\ redisMode \in {"up", "down", "hung"}
    /\ now = 0
    /\ memData = EmptyMap
    /\ remote \in InitRemotes
    /\ pending = <<>>
    /\ db \in [Families -> Payloads]
    /\ req = IdleReq
    /\ wr = IdleWr
    /\ served = 0
    /\ stats = NoStats
    /\ redisConn = IdleConn
    /\ master = NoMaster
    /\ cluster = NoCluster
    /\ tx = NoTx
    /\ proc = NoProc
    /\ eh = NoErr

\* The record of an answered request is dropped (ReadClose, WriteClose) before
\* anything else runs: it is kept only so that the answer can be looked at.
Quiet == req.pc # "done" /\ wr.pc # "done"

Listening == boot.pc = "listening" /\ Quiet

----------------------------------------------------------------------------
(* HighPerformanceAPI.start *)

\* await dbPool.query('SELECT NOW()')
StartDbQuery(ok) ==
    /\ boot.pc = "dbQuery"
    /\ boot' = IF ok THEN [boot EXCEPT !.pc = "ping", !.dbOk = TRUE]
                     ELSE [boot EXCEPT !.pc = "exited", !.code = 1]
    /\ UNCHANGED <<served, redisMode, now, memData, remote, pending, db, req, wr,
                   stats, redisConn, master,
                   cluster, tx, proc, eh>>

\* await redisClient.ping(); app.listen on success, process.exit(1) on a throw
StartPing ==
    /\ boot.pc = "ping"
    /\ redisMode # "hung"
    /\ LET r == RedisManager_call("ping", redisMode = "down")
       IN  boot' = IF r.raised THEN [boot EXCEPT !.pc = "exited", !.code = 1]
                               ELSE [boot EXCEPT !.pc = "listening"]
    /\ UNCHANGED <<served, redisMode, now, memData, remote, pending, db, req, wr,
                   stats, redisConn, master,
                   cluster, tx, proc, eh>>

----------------------------------------------------------------------------
(* Environment: the clock, the Redis server, the node-cache sweep *)

Tick ==
    /\ Listening
    /\ now < MaxTime
    /\ now' = now + 1
    /\ remote' = Drop(remote, {k \in DOMAIN remote : ~RedisLive(remote[k], now + 1)})
    /\ UNCHANGED <<served, boot, redisMode, memData, pending, db, req, wr,
                   stats, redisConn, master,
                   cluster, tx, proc, eh>>

CheckData ==
    /\ Listening
    /\ memData' = NC_checkData(memData, now)
    /\ memData' # memData
    /\ UNCHANGED <<served, boot, redisMode, now, remote, pending, db, req, wr,
                   stats, redisConn, master,
                   cluster, tx, proc, eh>>

SetRedisMode(m) ==
    /\ m # redisMode
    /\ boot.pc # "exited"
    /\ Quiet
    /\ redisMode' = m
    /\ UNCHANGED <<served, boot, now, memData, remote, pending, db, req, wr,
                   stats, redisConn, master,
                   cluster, tx, proc, eh>>

----------------------------------------------------------------------------
(* CacheManager.cache(ttl, useMemory): the middleware *)

\* res.json as the route reaches it: the override of lines 54-62 when the
\* middleware wrapped it, the original otherwise.  threw: memoryCache.set
\* raised before anything was sent; issue: redisClient.set was called.
JsonCall(body) ==
    IF req.wrapped
    THEN LET s == IF req.rq.useMemory
                  THEN NC_set(memData, req.key, body, req.rq.ttl, now)
                  ELSE [threw |-> FALSE, data |-> memData]
         IN  [threw |-> s.threw, data |-> s.data, issue |-> ~s.threw]
    ELSE [threw |-> FALSE, data |-> memData, issue |-> FALSE]

\* The route emits (status, body).  An exception of res.json lands in the
\* route's catch, next(error) runs errorHandler, which calls res.json again; an
\* exception of that call leaves Express' final handler to answer.
Emit(status, body, by) ==
    LET j1 == JsonCall(body)
        j2 == JsonCall(ErrorBody)
        sent == IF ~j1.threw THEN [j |-> j1, status |-> status, body |-> Some(body), by |-> by]
                ELSE IF by # "errorHandler" /\ ~j2.threw
                     THEN [j |-> j2, status |-> 500, body |-> Some(ErrorBody), by |-> "errorHandler"]
                     ELSE [j |-> j1, status |-> 500, body |-> Some(FinalBody), by |-> "finalhandler"]
    IN  /\ memData' = sent.j.data
        /\ pending' = IF sent.j.issue
                      THEN Append(pending, [key |-> req.key, s |-> Stringify(sent.body[1]),
                                            ttl |-> req.rq.ttl])
                      ELSE pending
        /\ req' = [req EXCEPT !.pc = "done",
                              !.out = [status |-> status, body |-> Some(body)],
                              !.resp = [status |-> sent.status, body |-> sent.body,
                                        by |-> sent.by, xcache |-> req.xcache]]

\* lines 30-36: the memory lookup of a request
MemoryLookup(r) ==
    IF r.useMemory THEN NC_get(memData, generateKey(r), now)
                   ELSE [data |-> memData, ret |-> Nil]

\* lines 39-64, once redisClient.get has returned: "HIT-REDIS" after the
\* backfill, "CATCH" when the backfill raised into the catch block (next()
\* without a marker), "MISS" otherwise
RedisLookup(r, data) ==
    LET key == generateKey(r)
        redisResult == RedisManager_get(key)
        s == IF r.useMemory THEN NC_set(data, key, redisResult[1], r.ttl, now)
                            ELSE [threw |-> FALSE, data |-> data]
    IN  IF Truthy(redisResult)
        THEN IF s.threw THEN [kind |-> "CATCH", data |-> data, body |-> redisResult]
                        ELSE [kind |-> "HIT-REDIS", data |-> s.data, body |-> redisResult]
        ELSE [kind |-> "MISS", data |-> data, body |-> Nil]

\* a method test that lets every request into the cache
BypassNever(r) == FALSE

\* lines 22-24: if (req.method !== 'GET') return next()
Bypass(r) == r.method # "GET"

\* lines 21-39: method test, key, memory lookup, then the Redis GET is sent
MwStart(r) ==
    /\ Listening
    /\ req.pc = "idle"
    /\ served < MaxRequests
    /\ Len(pending) < MaxPending
    /\ LET fresh == [IdleReq EXCEPT !.rq = r]
           key == generateKey(r)
           g == MemoryLookup(r)
       IN  IF Bypass(r)
           THEN /\ req' = [fresh EXCEPT !.pc = "origin"]
                /\ memData' = memData
           ELSE /\ memData' = g.data
                /\ req' = IF Truthy(g.ret)
                          THEN [fresh EXCEPT !.pc = "done", !.key = key, !.xcache = "HIT-MEMORY",
                                             !.resp = [status |-> 200, body |-> g.ret,
                                                       by |-> "memory", xcache |-> "HIT-MEMORY"]]
                          ELSE [fresh EXCEPT !.pc = "awaitGet", !.key = key]
    /\ served' = served + 1
    /\ stats' = IF Bypass(r) \/ ~r.useMemory THEN stats
                ELSE NC_count(stats, MemoryLookup(r).ret)
    /\ UNCHANGED <<wr, boot, redisMode, now, remote, pending, db, redisConn, master,
                   cluster, tx, proc, eh>>

\* lines 39-68: the Redis GET has settled
RedisGetReturn ==
    /\ req.pc = "awaitGet"
    /\ Quiet
    /\ redisMode # "hung"
    /\ LET l == RedisLookup(req.rq, memData)
       IN  /\ memData' = l.data
           /\ req' = CASE l.kind = "HIT-REDIS" ->
                            [req EXCEPT !.pc = "done", !.xcache = "HIT-REDIS",
                                        !.resp = [status |-> 200, body |-> l.body,
                                                  by |-> "redis", xcache |-> "HIT-REDIS"]]
                      [] l.kind = "CATCH" -> [req EXCEPT !.pc = "origin"]
                      [] l.kind = "MISS" ->
                            [req EXCEPT !.pc = "origin", !.xcache = "MISS", !.wrapped = TRUE,
                                        !.getErr = (redisMode = "down")]
    /\ UNCHANGED <<served, boot, redisMode, now, remote, pending, db, wr,
                   stats, redisConn, master,
                   cluster, tx, proc, eh>>

\* the route handler has its query result: on a database error it hands over to
\* errorHandler at once, otherwise it holds the rows until it calls res.json
OriginRead(ok) ==
    /\ req.pc = "origin"
    /\ Quiet
    /\ IF ok
       THEN /\ req' = [req EXCEPT !.pc = "json",
                                  !.out = [status |-> 200, body |-> Some(db[req.rq.family])]]
            /\ UNCHANGED <<memData, pending>>
       ELSE Emit(500, ErrorBody, "errorHandler")
    /\ UNCHANGED <<served, boot, redisMode, now, remote, db, wr,
                   stats, redisConn, master,
                   cluster, tx, proc, eh>>

\* the route handler calls res.json with the rows it read
OriginJson ==
    /\ req.pc = "json"
    /\ Quiet
    /\ Emit(req.out.status, req.out.body[1], "origin")
    /\ UNCHANGED <<served, boot, redisMode, now, remote, db, wr,
                   stats, redisConn, master,
                   cluster, tx, proc, eh>>

\* the answer has gone out: the request record is dropped
ReadClose ==
    /\ req.pc = "done"
    /\ req' = IdleReq
    /\ UNCHANGED <<served, boot, redisMode, now, memData, remote, pending, db, wr,
                   stats, redisConn, master,
                   cluster, tx, proc, eh>>

\* RedisManager.set, lines 157-166: the SETEX issued by the override settles
RedisSetComplete ==
    /\ pending # <<>>
    /\ Quiet
    /\ redisMode # "hung"
    /\ LET c == Head(pending)
       IN  remote' = IF redisMode = "up"
                     THEN Put(remote, c.key, [s |-> c.s, exp |-> now + c.ttl])
                     ELSE remote
    /\ pending' = Tail(pending)
    /\ UNCHANGED <<served, boot, redisMode, now, memData, db, req, wr,
                   stats, redisConn, master,
                   cluster, tx, proc, eh>>

----------------------------------------------------------------------------
(* The mutating routes *)

\* families: what the route's statement changes; patterns: its
\* invalidatePattern calls in order; validated: it runs validationResult;
\* canMiss: it answers missStatus when the statement matched no row (404), the
\* credentials matched no user (401) or the insert met an existing email (409).
PostProduct == [name |-> "POST /api/products", families |-> {"products"},
                patterns |-> << <<"products">> >>, validated |-> TRUE,
                canMiss |-> FALSE, okStatus |-> 201, missStatus |-> 404]
PutProduct == [name |-> "PUT /api/products/:id", families |-> {"products"},
                patterns |-> << <<"products">> >>, validated |-> TRUE,
                canMiss |-> TRUE, okStatus |-> 200, missStatus |-> 404]
DeleteProduct == [name |-> "DELETE /api/products/:id", families |-> {"products"},
                patterns |-> << <<"products">> >>, validated |-> FALSE,
                canMiss |-> TRUE, okStatus |-> 200, missStatus |-> 404]
PostOrder == [name |-> "POST /api/orders", families |-> {"orders", "products"},
                patterns |-> << <<"orders">>, <<"products">> >>, validated |-> TRUE,
                canMiss |-> FALSE, okStatus |-> 201, missStatus |-> 404]
PostRegister == [name |-> "POST /api/users/register", families |-> {"users"},
                patterns |-> <<>>, validated |-> TRUE,
                canMiss |-> TRUE, okStatus |-> 201, missStatus |-> 409]
PostLogin == [name |-> "POST /api/users/login", families |-> {"users"},
                patterns |-> <<>>, validated |-> TRUE,
                canMiss |-> TRUE, okStatus |-> 200, missStatus |-> 401]

WriteRoutes == {PostProduct, PutProduct, DeleteProduct, PostOrder, PostRegister, PostLogin}

RouteOf(name) == CHOOSE w \in WriteRoutes : w.name = name

\* the request arrives; a validation error is answered 400 at once
WriteStart(w, valid) ==
    /\ Listening
    /\ wr.pc = "idle"
    /\ served < MaxRequests
    /\ valid \/ w.validated
    /\ wr' = [IdleWr EXCEPT !.pc = IF valid THEN "db" ELSE "done", !.route = w.name,
                             !.status = IF valid THEN 0 ELSE 400]
    /\ served' = served + 1
    /\ UNCHANGED <<req, boot, redisMode, now, memData, remote, pending, db,
                   stats, redisConn, master,
                   cluster, tx, proc, eh>>

\* the statement (or the transaction) has settled: "fail" raises into
\* next(error), "miss" matched no row, "ok" changed the rows.  After "ok" the
\* handler runs on to its first invalidatePattern call, or to its response when
\* it has none.
WriteDb(outcome) ==
    /\ wr.pc = "db"
    /\ Quiet
    /\ LET w == RouteOf(wr.route)
       IN  CASE outcome = "fail" ->
                  /\ wr' = [wr EXCEPT !.pc = "done", !.status = 500]
                  /\ UNCHANGED <<db, memData>>
             [] outcome = "miss" ->
                  /\ w.canMiss
                  /\ wr' = [wr EXCEPT !.pc = "done", !.status = w.missStatus]
                  /\ UNCHANGED <<db, memData>>
             [] outcome = "ok" ->
                  /\ \E nv \in [w.families \cap Families -> Payloads] :
                        /\ \A f \in DOMAIN nv : nv[f] # db[f]
                        /\ db' = [f \in Families |-> IF f \in DOMAIN nv THEN nv[f] ELSE db[f]]
                  /\ IF w.patterns = <<>>
                     THEN /\ wr' = [wr EXCEPT !.pc = "done", !.status = w.okStatus]
                          /\ memData' = memData
                     ELSE /\ wr' = [wr EXCEPT !.pc = "await",
                                      !.todo = Tail(w.patterns),
                                      !.invalidated = <<Head(w.patterns)>>,
                                      !.purged = (PatternKeys(memData, Head(w.patterns)) # {})]
                          /\ memData' = invalidatePattern(memData, Head(w.patterns))
    /\ UNCHANGED <<served, boot, redisMode, now, remote, pending, req,
                   stats, redisConn, master,
                   cluster, tx, proc, eh>>

\* the await of invalidatePattern resumes: the next invalidatePattern call, or
\* the success response
WriteResume ==
    /\ wr.pc = "await"
    /\ Quiet
    /\ IF wr.todo # <<>>
       THEN /\ wr' = [wr EXCEPT !.todo = Tail(wr.todo),
                                !.invalidated = Append(wr.invalidated, Head(wr.todo)),
                                !.purged = (PatternKeys(memData, Head(wr.todo)) # {})]
            /\ memData' = invalidatePattern(memData, Head(wr.todo))
       ELSE /\ wr' = [wr EXCEPT !.pc = "done", !.status = RouteOf(wr.route).okStatus,
                                !.purged = FALSE]
            /\ memData' = memData
    /\ UNCHANGED <<served, boot, redisMode, now, remote, pending, db, req,
                   stats, redisConn, master,
                   cluster, tx, proc, eh>>

\* the answer has gone out: the request record is dropped
WriteClose ==
    /\ wr.pc = "done"
    /\ wr' = IdleWr
    /\ UNCHANGED <<served, boot, redisMode, now, memData, remote, pending, db, req,
                   stats, redisConn, master,
                   cluster, tx, proc, eh>>

----------------------------------------------------------------------------
(* GET /health (not cached): the database check, then the Redis ping, each
   inside its own try/catch *)

HealthRequest == [method |-> "GET", url |-> <<"/health">>, query |-> <<>>,
                  user |-> Nil, family |-> "none", ttl |-> 0, useMemory |-> FALSE]

\* the request arrives and dbPool.query('SELECT 1') settles
HealthStart(dbOk) ==
    /\ Listening
    /\ req.pc = "idle"
    /\ served < MaxRequests
    /\ req' = [IdleReq EXCEPT !.pc = "healthPing", !.rq = HealthRequest,
                              !.out = [status |-> IF dbOk THEN 200 ELSE 503, body |-> Nil]]
    /\ served' = served + 1
    /\ UNCHANGED <<wr, boot, redisMode, now, memData, remote, pending, db,
                   stats, redisConn, master,
                   cluster, tx, proc, eh>>

\* redisClient.ping() settles; a raise is caught by the route and reported 503
HealthPing ==
    /\ req.pc = "healthPing"
    /\ Quiet
    /\ redisMode # "hung"
    /\ LET r == RedisManager_call("ping", redisMode = "down")
       IN  req' = [req EXCEPT !.pc = "done", !.caught = r.raised,
                              !.resp = [status |-> IF r.raised THEN 503 ELSE req.out.status,
                                        body |-> Nil, by |-> "health", xcache |-> "none"]]
    /\ UNCHANGED <<served, boot, redisMode, now, memData, remote, pending, db, wr,
                   stats, redisConn, master,
                   cluster, tx, proc, eh>>

----------------------------------------------------------------------------

Next ==
    \/ \E ok \in BOOLEAN : StartDbQuery(ok)
    \/ StartPing
    \/ Tick
    \/ CheckData
    \/ \E m \in {"up", "down", "hung"} : SetRedisMode(m)
    \/ \E r \in ReadRequests : MwStart(r)
    \/ RedisGetReturn
    \/ \E ok \in BOOLEAN : OriginRead(ok)
    \/ OriginJson
    \/ ReadClose
    \/ RedisSetComplete
    \/ \E w \in WriteRoutes, valid \in BOOLEAN : WriteStart(w, valid)
    \/ \E outcome \in {"ok", "fail", "miss"} : WriteDb(outcome)
    \/ WriteResume
    \/ WriteClose
    \/ \E dbOk \in BOOLEAN : HealthStart(dbOk)
    \/ HealthPing

Spec == Init /\ [][Next]_vars

\* Node's event loop runs every continuation that is ready, and the database
\* answers; a Redis reply is delivered whenever Redis answers at all.
ProgramStep ==
    \/ \E ok \in BOOLEAN : OriginRead(ok)
    \/ OriginJson
    \/ ReadClose
    \/ HealthPing
    \/ \E outcome \in {"ok", "fail", "miss"} : WriteDb(outcome)
    \/ WriteResume
    \/ WriteClose

FairSpec == Spec /\ WF_vars(ProgramStep) /\ SF_vars(RedisGetReturn)

----------------------------------------------------------------------------
(* Properties *)

Answered == req.pc = "done"
Eligible == req.rq \in CachedRequests
OwnAnswer ==
    /\ req.resp.by \in {"origin", "errorHandler"}
    /\ req.resp.status = req.out.status
    /\ req.resp.body = req.out.body

\* the answer the middleware gives to request r in the current state, once
\* Redis has replied
NextGetOutcome(r) ==
    LET g == MemoryLookup(r)
    IN  IF Truthy(g.ret) THEN "HIT-MEMORY" ELSE RedisLookup(r, g.data).kind

\* an invalidatePattern call has just run; LastPattern is its argument
InvalidateStep == Len(wr'.invalidated) = Len(wr.invalidated) + 1
LastPattern == wr.invalidated[Len(wr.invalidated)]

\* C1: with Redis unreachable (the request's Redis GET raised and Redis is
\* still down when it is answered), an eligible request whose origin handler
\* answered 200 with a truthy payload is answered with that response, and the
\* memory tier has stored it.
C1_Orig ==
    (Answered /\ Eligible /\ req.getErr /\ redisMode = "down"
        /\ req.out.status = 200 /\ Truthy(req.out.body))
        => /\ OwnAnswer
           /\ req.key \in DOMAIN memData
           /\ memData[req.key].v = req.out.body[1]

\* C2: an eligible request that is not served from a tier is answered with
\* exactly the origin handler's response, whatever the cache raised on the way
\* (lookup, backfill or the capture inside the wrapped res.json); stated for
\* the requests whose origin handler answered 200 with a truthy payload.
C2_Orig ==
    (Answered /\ Eligible /\ req.resp.by \notin {"memory", "redis"}
        /\ req.out.status = 200 /\ Truthy(req.out.body))
        => OwnAnswer

\* C3: no RedisManager method raises into its caller: the health route never
\* enters its catch block for redisClient.ping().
C3_Orig == (Answered /\ req.resp.by = "health") => ~req.caught

\* C4: with a reachable database, start() never ends the process, whatever
\* the state of Redis.
C4_Orig == boot.pc = "exited" => ~boot.dbOk

\* C5: every eligible request waiting for its Redis GET is eventually answered.
C5_Orig == (req.pc = "awaitGet") ~> Answered

\* C6: right after invalidatePattern(p), a GET whose key contains p is a MISS.
C6_Orig ==
    [][InvalidateStep =>
        \A r \in CachedRequests :
            Includes(generateKey(r), LastPattern') => NextGetOutcome(r)' = "MISS"]_vars

C8_Orig ==
    (wr.pc = "done" /\ wr.status \in {200, 201})
        => \A f \in RouteOf(wr.route).families :
              \E i \in 1..Len(wr.invalidated) : wr.invalidated[i] = <<f>>

\* C9: a GET for a key held by both tiers with different values is answered
\* at once from the memory tier, with the memory tier's value.
C9_Orig ==
    [][\A r \in CachedRequests :
        LET k == generateKey(r)
        IN  (/\ req.pc = "idle" /\ req'.pc # "idle" /\ req'.rq = r
             /\ k \in DOMAIN memData /\ ~NC_expired(memData[k], now)
             /\ ClientGet(k) # Nil /\ Parse(ClientGet(k)[1]) # memData[k].v)
            => /\ req'.pc = "done"
               /\ req'.resp.by = "memory"
               /\ req'.resp.body = Some(memData[k].v)]_vars

\* C10: when the Redis GET of a request returns a value for a key the memory
\* tier does not hold, the request is served from Redis and the memory tier
\* then holds the value, so that the next lookup is a memory hit with it.
C10_Orig ==
    [][(/\ req.pc = "awaitGet" /\ req'.pc # "awaitGet"
        /\ req.key \notin DOMAIN memData
        /\ Truthy(RedisManager_get(req.key)))
       => /\ req'.resp.by = "redis"
          /\ NC_get(memData', req.key, now).ret = RedisManager_get(req.key)]_vars

\* C11: a request whose key the Redis tier holds (Redis answering, truthy
\* value) is answered from the cache and never reaches the origin handler.
C11_Orig ==
    [][(/\ req.pc = "awaitGet" /\ req'.pc # "awaitGet"
        /\ redisMode = "up"
        /\ Truthy(RedisManager_get(req.key)))
       => req'.pc # "origin"]_vars

\* C12: after a miss that the origin handler answered with payload v through
\* the wrapped res.json, a repeat of the request right away is a memory hit
\* whose payload is v.
C12_Orig ==
    (Answered /\ Eligible /\ req.wrapped /\ req.resp.by = "origin")
        => /\ NextGetOutcome(req.rq) = "HIT-MEMORY"
           /\ MemoryLookup(req.rq).ret = req.out.body

\* C13: the capture of a new key into a memory tier that holds MaxKeys entries
\* succeeds: afterwards the tier holds the new entry and still MaxKeys
\* entries (one older entry was evicted).
C13_Orig ==
    [][(/\ req.pc = "json" /\ req'.pc = "done" /\ req.wrapped
        /\ Cardinality(DOMAIN memData) = MaxKeys
        /\ req.key \notin DOMAIN memData)
       => /\ req.key \in DOMAIN memData'
          /\ memData'[req.key].v = req.out.body[1]
          /\ Cardinality(DOMAIN memData') = MaxKeys]_vars

\* C14: the memory tier never holds more than MaxKeys entries.
C14_MemoryBounded == Cardinality(DOMAIN memData) <= MaxKeys

\* C14 witness: the tier is full and the capture of one more key was refused.
C14_Witness ==
    /\ Answered /\ req.wrapped
    /\ req.resp.by = "finalhandler"
    /\ req.key \notin DOMAIN memData
    /\ Cardinality(DOMAIN memData) = MaxKeys

\* C15: when the origin handler emits payload v through the wrapped res.json,
\* a SETEX of v under the request's key with the route's ttl is issued to
\* Redis, whether or not the memory write succeeded.
C15_Orig ==
    [][(req.pc = "json" /\ req'.pc = "done" /\ req.wrapped)
       => pending' = Append(pending, [key |-> req.key,
                                      s |-> Stringify(req.out.body[1]),
                                      ttl |-> req.rq.ttl])]_vars

\* C16: a 200 response that the origin handler sent through the wrapped
\* res.json reaches the client with the status and the payload it was given.
C16_Orig ==
    (Answered /\ req.wrapped /\ req.out.status = 200)
        => /\ req.resp.status = req.out.status
           /\ req.resp.body = req.out.body

\* C17: an entry is stored with expiry time (now + ttl of its route), in the
\* memory tier and in Redis alike; a get returns it at every time before its
\* expiry time and misses at every time after it, entry by entry.
C17_Expiry ==
    /\ [](\A k \in DOMAIN memData :
            /\ now < memData[k].t => NC_get(memData, k, now).ret = Some(memData[k].v)
            /\ now > memData[k].t => NC_get(memData, k, now).ret = Nil)
    /\ [](\A k \in DOMAIN remote :
            /\ now < remote[k].exp => ClientGet(k) = Some(remote[k].s)
            /\ now > remote[k].exp => ClientGet(k) = Nil)
    /\ [][\A r \in CachedRequests :
            LET k == generateKey(r)
            IN  /\ (k \in DOMAIN memData'
                        /\ (k \notin DOMAIN memData \/ memData'[k] # memData[k]))
                    => memData'[k].t = now' + r.ttl
                /\ (k \in DOMAIN remote'
                        /\ (k \notin DOMAIN remote \/ remote'[k] # remote[k]))
                    => remote'[k].exp = now' + r.ttl]_vars

\* C17 witness: the memory tier still holds an entry whose expiry time has
\* passed, and a get of its key misses.
C17_Witness ==
    \E k \in DOMAIN memData :
        now > memData[k].t /\ NC_get(memData, k, now).ret = Nil

\* C18: every step of a non-GET request leaves both tiers and the issued
\* SETEX commands alone, never wraps res.json, never sets X-Cache, enters the
\* origin handler only on arrival, and delivers the origin's own answer.
C18_PassThrough ==
    [][(/\ req' # req /\ req'.pc # "idle"
        /\ req'.rq \in ReadRequests /\ req'.rq.method # "GET")
       => /\ memData' = memData /\ remote' = remote /\ pending' = pending
          /\ ~req'.wrapped /\ req'.xcache = "none" /\ req'.key = <<>>
          /\ (req'.pc = "origin") <=> (req.pc = "idle")
          /\ req'.pc = "done" =>
                /\ req'.resp.xcache = "none"
                /\ req'.resp.by \in {"origin", "errorHandler"}
                /\ req'.resp.status = req'.out.status
                /\ req'.resp.body = req'.out.body]_vars

\* C18 witness: a HEAD request has been answered 200 by the origin handler
\* while the memory tier held an entry.
C18_Witness ==
    /\ Answered /\ req.rq = HeadProducts
    /\ req.resp.by = "origin" /\ req.resp.status = 200
    /\ memData # EmptyMap

\* C19: the X-Cache marker of an answered GET tells the path taken:
\* HIT-MEMORY iff the memory tier answered, HIT-REDIS iff Redis answered, and
\* MISS whenever the origin side answered.
C19_Orig ==
    (Answered /\ Eligible)
        => /\ (req.resp.by = "memory") <=> (req.resp.xcache = "HIT-MEMORY")
           /\ (req.resp.by = "redis") <=> (req.resp.xcache = "HIT-REDIS")
           /\ req.resp.by \in {"origin", "errorHandler"} => req.resp.xcache = "MISS"

----------------------------------------------------------------------------
(* CacheManager.generateKey on requests that carry a query string *)

MaxParams == 3      \* parameters in one query string

QueryParams == {"page=1", "limit=2", "category=3"}

\* the query strings over QueryParams: every parameter at most once, any order
Orderings ==
    {q \in UNION {[1..n -> QueryParams] : n \in 0..MaxParams} :
        \A i, j \in DOMAIN q : q[i] = q[j] => i = j}

\* the part of req.originalUrl after the path: "?a&b&c" in the order sent
QueryString(q) ==
    IF q = <<>> THEN <<>>
    ELSE <<"?">> \o [i \in 1..(2 * Len(q) - 1) |->
                        IF i % 2 = 1 THEN q[(i + 1) \div 2] ELSE "&"]

\* A request for the product list: req.query is the parsed query string, whose
\* properties JSON.stringify writes in the order they were sent.
KeyRequest(m, q, u) ==
    [method |-> m, url |-> <<"/api/", "products">> \o QueryString(q), query |-> q,
     user |-> u, family |-> "products", ttl |-> TtlProducts, useMemory |-> TRUE]

KeyInputs ==
    {KeyRequest(m, q, u) : m \in {"GET", "HEAD"}, q \in Orderings, u \in {Nil, Some("u1")}}

KeyInit ==
    /\ boot = [pc |-> "listening", dbOk |-> TRUE, code |-> 0]
    /\ redisMode = "up"
    /\ now = 0
    /\ memData = EmptyMap
    /\ remote = EmptyMap
    /\ pending = <<>>
    /\ db = [f \in Families |-> 0]
    /\ req \in {[IdleReq EXCEPT !.rq = r] : r \in KeyInputs}
    /\ wr = IdleWr
    /\ served = 0
    /\ stats = NoStats
    /\ redisConn = IdleConn
    /\ master = NoMaster
    /\ cluster = NoCluster
    /\ tx = NoTx
    /\ proc = NoProc
    /\ eh = NoErr

\* line 26: const key = this.generateKey(req)
KeyStep ==
    /\ req.pc = "idle"
    /\ req' = [req EXCEPT !.pc = "keyed", !.key = generateKey(req.rq)]
    /\ UNCHANGED <<boot, redisMode, now, memData, remote, pending, db, wr, served,
                   stats, redisConn, master,
                   cluster, tx, proc, eh>>

\* time passes between two derivations
KeyTick ==
    /\ now < MaxTime
    /\ now' = now + 1
    /\ UNCHANGED <<boot, redisMode, memData, remote, pending, db, req, wr, served,
                   stats, redisConn, master,
                   cluster, tx, proc, eh>>

\* generateKey raises on line 26, which is outside the try block of line 28: the
\* promise of the async middleware rejects.  Express 4 does not look at that
\* promise (the request is left without an answer, and Node reports an unhandled
\* rejection); Express 5 passes the error to errorHandler.
KeyRaise(express5) ==
    /\ req.pc = "idle"
    /\ ~Bypass(req.rq)
    /\ req' = IF express5
              THEN [req EXCEPT !.pc = "done", !.caught = TRUE,
                               !.resp = [status |-> 500, body |-> Some(ErrorBody),
                                         by |-> "errorHandler", xcache |-> "none"]]
              ELSE [req EXCEPT !.pc = "unhandled", !.caught = TRUE]
    /\ UNCHANGED <<boot, redisMode, now, memData, remote, pending, db, wr, served,
                   stats, redisConn, master,
                   cluster, tx, proc, eh>>

KeyNext ==
    \/ KeyStep
    \/ KeyTick
    \/ \E express5 \in BOOLEAN : KeyRaise(express5)

KeySpec == KeyInit /\ [][KeyNext]_vars

\* two requests carry the same parameters
SameParams(a, b) ==
    {a.query[i] : i \in DOMAIN a.query} = {b.query[i] : i \in DOMAIN b.query}

\* C20: the key of a request is also the key of every request with the same
\* method, path and caller whose query string carries the same parameters in
\* another order.
C20_Orig ==
    req.pc = "keyed" =>
        \A b \in KeyInputs :
            (b.method = req.rq.method /\ b.user = req.rq.user /\ SameParams(req.rq, b))
                => generateKey(b) = req.key

\* two requests differ in method, URL, query parameters or caller
Differ(a, b) ==
    a.method # b.method \/ a.url # b.url \/ a.query # b.query \/ a.user # b.user

\* C21: the key of a request is the key of no request that differs from it in
\* method, URL, query parameters or caller identity.
C21_DistinctKeys ==
    req.pc = "keyed" =>
        \A b \in KeyInputs \cup ReadRequests :
            Differ(b, req.rq) => generateKey(b) # req.key

\* C21 witness: the key of an authenticated request with a query string.
C21_Witness ==
    /\ req.pc = "keyed" /\ req.rq.method = "GET"
    /\ req.rq.user # Nil /\ Len(req.rq.query) = MaxParams

C23_Orig == (req.caught /\ req.rq.method = "GET") => req.pc = "origin"

----------------------------------------------------------------------------
C29_Orig ==
    [][(req.pc = "awaitGet" /\ req'.pc = "done" /\ req'.resp.by = "redis"
            /\ req.key \in DOMAIN memData')
          => memData'[req.key].t <= remote[req.key].exp]_vars

\* C30: an answer served from a tier never carries the body of an error answer.
C30_Orig ==
    (req.pc = "done" /\ req.resp.by \in {"memory", "redis"})
        => req.resp.body # Some(ErrorBody)

----------------------------------------------------------------------------
(* The reconnect strategy of the Redis socket *)

MaxRetries == 60

RetryLimit == 3
BackoffStep == 100
BackoffCap == 3000

Min(a, b) == IF a < b THEN a ELSE b

\* a strategy that never gives up
reconnectStrategyNoLimit(retries) ==
    [err |-> FALSE, delay |-> Min(retries * BackoffStep, BackoffCap)]

\* reconnectStrategy(retries): an Error past the limit, a delay in ms otherwise
reconnectStrategy(retries) ==
    IF retries > RetryLimit
    THEN [err |-> TRUE, delay |-> 0]
    ELSE [err |-> FALSE, delay |-> Min(retries * BackoffStep, BackoffCap)]

\* the connection has just been lost, after any number of failed attempts
RetryInit ==
    /\ redisConn \in {[IdleConn EXCEPT !.pc = "lost", !.retries = n] : n \in 0..MaxRetries}
    /\ boot = [pc |-> "listening", dbOk |-> TRUE, code |-> 0]
    /\ redisMode = "down"
    /\ now = 0
    /\ memData = EmptyMap
    /\ remote = EmptyMap
    /\ pending = <<>>
    /\ db \in [Families -> {0}]
    /\ req = IdleReq
    /\ wr = IdleWr
    /\ served = 0
    /\ stats = NoStats
    /\ master = NoMaster
    /\ cluster = NoCluster
    /\ tx = NoTx
    /\ proc = NoProc
    /\ eh = NoErr

\* the socket asks the strategy what to do after the failure
AskStrategy ==
    /\ redisConn.pc = "lost"
    /\ LET a == reconnectStrategy(redisConn.retries)
       IN  redisConn' = [redisConn EXCEPT !.pc = IF a.err THEN "failed" ELSE "waiting",
                                          !.err = a.err, !.delay = a.delay]
    /\ UNCHANGED <<served, boot, redisMode, now, memData, remote, pending, db, req, wr,
                   stats, master,
                   cluster, tx, proc, eh>>

\* the delay is over and the attempt fails: the count of retries goes up
RetryFails ==
    /\ redisConn.pc = "waiting"
    /\ redisConn.retries < MaxRetries
    /\ redisConn' = [redisConn EXCEPT !.pc = "lost", !.retries = @ + 1]
    /\ UNCHANGED <<served, boot, redisMode, now, memData, remote, pending, db, req, wr,
                   stats, master,
                   cluster, tx, proc, eh>>

\* the delay is over and the attempt succeeds
RetryConnects ==
    /\ redisConn.pc = "waiting"
    /\ redisConn' = IdleConn
    /\ redisMode' = "up"
    /\ UNCHANGED <<served, boot, now, memData, remote, pending, db, req, wr,
                   stats, master,
                   cluster, tx, proc, eh>>

RetryNext == AskStrategy \/ RetryFails \/ RetryConnects

RetrySpec == RetryInit /\ [][RetryNext]_vars

\* C26: for a retry count above 3 the strategy returns an error and no delay;
\* up to 3 it returns a delay of at most 3000 ms that is no shorter than the
\* delay of any smaller retry count.
C26_Backoff ==
    redisConn.pc \in {"waiting", "failed"}
        => /\ redisConn.retries > 3 => redisConn.err /\ redisConn.pc = "failed"
           /\ redisConn.retries <= 3
                => /\ ~redisConn.err
                   /\ redisConn.delay <= 3000
                   /\ \A m \in 0..redisConn.retries :
                         /\ ~reconnectStrategy(m).err
                         /\ reconnectStrategy(m).delay <= redisConn.delay

\* C26 witness: the last retry the strategy allows waits longer than the first
\* one did, and the strategy refuses the one after it.
C26_Witness ==
    /\ redisConn.pc = "waiting"
    /\ redisConn.retries = RetryLimit
    /\ redisConn.delay > reconnectStrategy(1).delay
    /\ reconnectStrategy(RetryLimit + 1).err

----------------------------------------------------------------------------
(* The cluster master *)

MaxWorkers == 4
MaxCpus == 4

\* the values of process.env.CLUSTER_WORKERS: unset, empty, or a decimal number
WorkerEnvs == {Nil, Some("")} \cup {Some(ToString(n)) : n \in 0..MaxWorkers}

\* a string of the environment is truthy unless it is empty
TruthyString(e) == e # Nil /\ e[1] # ""

\* Number(s) as the comparison i < this.numWorkers coerces a decimal string
ToNumber(s) == CHOOSE n \in 0..(MaxWorkers + 1) : ToString(n) = s

ClusterInit ==
    /\ master \in {[NoMaster EXCEPT !.pc = "new", !.env = e, !.cpus = c] :
                        e \in WorkerEnvs, c \in 1..MaxCpus}
    /\ boot = [pc |-> "dbQuery", dbOk |-> FALSE, code |-> 0]
    /\ redisMode = "up"
    /\ now = 0
    /\ memData = EmptyMap
    /\ remote = EmptyMap
    /\ pending = <<>>
    /\ db \in [Families -> {0}]
    /\ req = IdleReq
    /\ wr = IdleWr
    /\ served = 0
    /\ stats = NoStats
    /\ redisConn = IdleConn
    /\ cluster = NoCluster
    /\ tx = NoTx
    /\ proc = NoProc
    /\ eh = NoErr

\* constructor: this.numWorkers = process.env.CLUSTER_WORKERS || os.cpus().length
\* A truthy string of the environment is kept as it is and coerced by the
\* comparison of the loop; the model holds the number it is coerced to.
MasterConstruct ==
    /\ master.pc = "new"
    /\ master' = [master EXCEPT !.pc = "forking",
                                !.numWorkers = IF TruthyString(master.env)
                                               THEN Some(ToNumber(master.env[1]))
                                               ELSE Some(master.cpus)]
    /\ UNCHANGED <<served, boot, redisMode, now, memData, remote, pending, db, req, wr,
                   stats, redisConn,
                   cluster, tx, proc, eh>>

\* start: one turn of  for (let i = 0; i < this.numWorkers; i++) cluster.fork()
MasterFork ==
    /\ master.pc = "forking"
    /\ master.forked < master.numWorkers[1]
    /\ master' = [master EXCEPT !.forked = @ + 1]
    /\ UNCHANGED <<served, boot, redisMode, now, memData, remote, pending, db, req, wr,
                   stats, redisConn,
                   cluster, tx, proc, eh>>

\* start: the loop ends, the handlers of exit, online and signals are set
MasterStarted ==
    /\ master.pc = "forking"
    /\ ~(master.forked < master.numWorkers[1])
    /\ master' = [master EXCEPT !.pc = "started"]
    /\ UNCHANGED <<served, boot, redisMode, now, memData, remote, pending, db, req, wr,
                   stats, redisConn,
                   cluster, tx, proc, eh>>

ClusterNext == MasterConstruct \/ MasterFork \/ MasterStarted

ClusterSpec == ClusterInit /\ [][ClusterNext]_vars

\* C28: with CLUSTER_WORKERS unset or "0" the started master has forked one
\* worker per CPU core, and with CLUSTER_WORKERS = n > 0 it has forked n.
C28_Orig ==
    (master.pc = "started" /\ master.env # Some(""))
        => master.forked = IF master.env = Nil \/ master.env = Some("0")
                           THEN master.cpus
                           ELSE ToNumber(master.env[1])

----------------------------------------------------------------------------
(* CacheManager.getStats *)

\* getStats(): the keys, hits and misses of the memory tier's statistics
getStats(st, data) ==
    [keys |-> Cardinality(DOMAIN data), hits |-> st.hits, misses |-> st.misses]

\* the analytics handler calls cache.getStats() and answers with the report
GetStats ==
    /\ Listening
    /\ req.pc = "idle"
    /\ served < MaxRequests
    /\ req' = [IdleReq EXCEPT !.pc = "done",
                              !.resp = [status |-> 200, body |-> Some(getStats(stats, memData)),
                                        by |-> "getStats", xcache |-> "none"]]
    /\ served' = served + 1
    /\ UNCHANGED <<boot, redisMode, now, memData, remote, pending, db, wr,
                   stats, redisConn, master,
                   cluster, tx, proc, eh>>

StatsNext == Next \/ GetStats

StatsSpec == Init /\ [][StatsNext]_vars

\* C27: no step lowers the hits or the misses of the memory tier, and the step
\* that calls getStats leaves the counters and both tiers as they were and
\* reports the counters as they are.
C27_Counters ==
    [][/\ stats'.hits >= stats.hits
       /\ stats'.misses >= stats.misses
       /\ (req.pc = "idle" /\ req'.resp.by = "getStats")
            => /\ UNCHANGED <<stats, memData, remote, pending>>
               /\ req'.resp.body[1].hits = stats.hits
               /\ req'.resp.body[1].misses = stats.misses]_vars

\* C27 witness: getStats has reported a lookup that an earlier request of the
\* process counted.
C27_Witness ==
    /\ req.pc = "done"
    /\ req.resp.by = "getStats"
    /\ stats.hits + stats.misses > 0

----------------------------------------------------------------------------
(* Eventual correctness *)

\* a first start: Redis is empty and every table holds a truthy payload
LiveInit ==
    /\ Init
    /\ remote = EmptyMap
    /\ db = [f \in Families |-> MaxPayload]

\* The clock advances, the sweep of node-cache runs every checkperiod, and the
\* event loop runs every continuation that is ready.
LiveSpec ==
    LiveInit /\ [][Next]_vars /\ WF_vars(Tick) /\ WF_vars(CheckData) /\ WF_vars(ProgramStep)

\* the payload a tier holds for request r is not what the database holds now
StaleInMemory(r) ==
    /\ generateKey(r) \in DOMAIN memData
    /\ memData[generateKey(r)].v # db[r.family]
StaleInRedis(r) ==
    /\ generateKey(r) \in DOMAIN remote
    /\ remote[generateKey(r)].s # Stringify(db[r.family])

\* C25: in a process that serves requests, whatever the order of an in-flight
\* miss and a mutation with its invalidatePattern calls, an entry whose payload is older than the mutation
\* and whose expiry time lies before the end of the run is gone from the
\* memory tier and from Redis at some later time; once it is gone from both,
\* a request for its key is a miss that goes to the origin handler.
C25_EventuallyCorrect ==
    /\ \A r \in CachedRequests :
          /\ (Listening /\ StaleInMemory(r) /\ memData[generateKey(r)].t < MaxTime)
                ~> ~StaleInMemory(r)
          /\ (Listening /\ StaleInRedis(r) /\ remote[generateKey(r)].exp <= MaxTime)
                ~> ~StaleInRedis(r)
    /\ [](\A r \in CachedRequests :
            (generateKey(r) \notin DOMAIN memData /\ generateKey(r) \notin DOMAIN remote)
                => NextGetOutcome(r) = "MISS")

\* C25 witness: a GET of the orders was in flight when POST /api/orders changed
\* the database and invalidated; it then stored the payload it had read before
\* the mutation, which sits in the memory tier while the mutation is under way.
C25_Witness ==
    /\ wr.route = PostOrder.name
    /\ wr.invalidated # <<>>
    /\ StaleInMemory(GetOrders)
    /\ memData[generateKey(GetOrders)].v \in Payloads \ {0}
    /\ memData[generateKey(GetOrders)].t < MaxTime

----------------------------------------------------------------------------
(* errorHandler *)

\* the variables of the cache model, which the components below leave alone,
\* without and with the state of the cluster master
serverVars == <<boot, redisMode, now, memData, remote, pending, db, req, wr, served,
                stats, redisConn>>
cacheVars == <<serverVars, master>>

\* one worker with an idle cache
Parked ==
    /\ boot = [pc |-> "listening", dbOk |-> TRUE, code |-> 0]
    /\ redisMode = "up"
    /\ now = 0
    /\ memData = EmptyMap
    /\ remote = EmptyMap
    /\ pending = <<>>
    /\ db = [f \in Families |-> 0]
    /\ req = IdleReq
    /\ wr = IdleWr
    /\ served = 0
    /\ stats = NoStats
    /\ redisConn = IdleConn
    /\ master = NoMaster

\* the errors that reach the handler: name and code select the answer, status
\* 0 stands for an error without a status, message and stack are its secrets
ErrNames == {"Error", "ValidationError", "JsonWebTokenError", "TokenExpiredError"}
ErrCodes == {"none", "23505", "23503"}
ErrStatuses == {0, 404, 500}
ErrMessages == {"message-a", "message-b"}
ErrStacks == {"stack-a", "stack-b"}
Errors == [name : ErrNames, code : ErrCodes, status : ErrStatuses,
           message : ErrMessages, stack : ErrStacks]

\* process.env.NODE_ENV; "" stands for unset
NodeEnvs == {"production", "development", ""}

\* the strings the handler itself writes
FixedMessages == {"Internal Server Error", "Validation Error", "Invalid Token",
                  "Token Expired", "Resource already exists", "Invalid reference"}

\* lines 13-32: status and message by the error's name, then by its code
errorKind(err) ==
    CASE err.name = "ValidationError" -> [status |-> 400, message |-> "Validation Error"]
      [] err.name = "JsonWebTokenError" -> [status |-> 401, message |-> "Invalid Token"]
      [] err.name = "TokenExpiredError" -> [status |-> 401, message |-> "Token Expired"]
      [] err.name \notin {"ValidationError", "JsonWebTokenError", "TokenExpiredError"}
            /\ err.code = "23505" -> [status |-> 409, message |-> "Resource already exists"]
      [] err.name \notin {"ValidationError", "JsonWebTokenError", "TokenExpiredError"}
            /\ err.code = "23503" -> [status |-> 400, message |-> "Invalid reference"]
      [] OTHER -> [status |-> IF err.status # 0 THEN err.status ELSE 500,
                   message |-> "Internal Server Error"]

\* a handler that hides the message of a 500 only
errorHandlerLeaky(err, env) ==
    LET k == errorKind(err)
    IN  [status |-> k.status,
         body |-> [error |-> IF env = "production" /\ k.status = 500
                             THEN "Internal Server Error" ELSE err.message,
                   stack |-> IF env # "production" THEN Some(err.stack) ELSE Nil]]

\* lines 34-46: the message of the error replaces the fixed one outside
\* production only, and the stack is spread into the body outside production
\* only.  timestamp and path do not come from the error and are left out.
errorHandler(err, env) ==
    LET k == errorKind(err)
    IN  [status |-> k.status,
         body |-> [error |-> IF env = "production" /\ k.status = 500
                             THEN "Internal Server Error"
                             ELSE IF env # "production" THEN err.message ELSE k.message,
                   stack |-> IF env # "production" THEN Some(err.stack) ELSE Nil]]

ErrInit ==
    /\ Parked
    /\ cluster = NoCluster
    /\ tx = NoTx
    /\ proc = NoProc
    /\ eh \in {[pc |-> "raised", err |-> e, env |-> v, resp |-> NoOut] :
                    e \in Errors, v \in NodeEnvs}

\* next(error) has reached the handler: it answers
HandleError ==
    /\ eh.pc = "raised"
    /\ eh' = [eh EXCEPT !.pc = "answered", !.resp = errorHandler(eh.err, eh.env)]
    /\ UNCHANGED <<cacheVars, cluster, tx, proc>>

ErrNext == HandleError

ErrSpec == ErrInit /\ [][ErrNext]_vars

\* C36: in production the answer carries one of the handler's own strings as
\* its error field and no stack, and it is the same answer for every message
\* and stack the error could have had.
C36_NoLeak ==
    (eh.pc = "answered" /\ eh.env = "production")
        => /\ eh.resp.body.error \in FixedMessages
           /\ eh.resp.body.stack = Nil
           /\ \A m \in ErrMessages, s \in ErrStacks :
                 errorHandler([eh.err EXCEPT !.message = m, !.stack = s], eh.env) = eh.resp

\* C36 witness: in production a unique violation has been answered 409 with the
\* handler's string, not with the message of the error.
C36_Witness ==
    /\ eh.pc = "answered"
    /\ eh.env = "production"
    /\ eh.err.code = "23505"
    /\ eh.resp.status = 409
    /\ eh.resp.body.error = "Resource already exists"

----------------------------------------------------------------------------
(* DatabaseManager.transaction and the order transaction of POST /api/orders *)

MaxTx == 2       \* concurrent POST /api/orders requests
MaxStock == 2    \* stock_quantity of the product before the orders
MaxQty == 2      \* quantity of an order item

TxIds == 1..MaxTx

\* the products table as the source shows it: UPDATE ... SET stock_quantity =
\* stock_quantity - $1 is accepted whatever the result (withCheck FALSE); a
\* table that rejects a negative stock_quantity is the other case
StockRule(withCheck, stock, quantity) == ~withCheck \/ stock - quantity >= 0

\* one call of transaction(callback): issued lists the statements it has sent
\* to control the transaction, err is what the catch block caught, raised is
\* what the caller gets
IdleTx(q) ==
    [pc |-> "route", quantity |-> q, seen |-> 0, acquired |-> FALSE, released |-> 0,
     issued |-> <<>>, cbErr |-> FALSE, err |-> "none", raised |-> "none",
     updated |-> FALSE, committed |-> FALSE]

TxInit ==
    /\ Parked
    /\ cluster = NoCluster
    /\ proc = NoProc
    /\ eh = NoErr
    /\ tx \in {[pc |-> "orders", withCheck |-> c, stock0 |-> s, stock |-> s, lock |-> 0,
                 t |-> [i \in TxIds |-> IdleTx(q[i])]] :
                c \in BOOLEAN, s \in 0..MaxStock, q \in [TxIds -> 1..MaxQty]}

TxSet(i, rec) ==
    /\ tx' = [tx EXCEPT !.t[i] = rec]
    /\ UNCHANGED <<cacheVars, cluster, proc, eh>>

\* the route calls dbPool.transaction once its body has been validated
TxCall(i) ==
    /\ tx.pc = "orders"
    /\ tx.t[i].pc = "route"
    /\ TxSet(i, [tx.t[i] EXCEPT !.pc = "connect"])

Running(i) == tx.pc = "orders"

\* line 48: const client = await this.pool.connect(), outside the try
TxConnect(i, ok) ==
    /\ Running(i)
    /\ tx.t[i].pc = "connect"
    /\ TxSet(i, IF ok THEN [tx.t[i] EXCEPT !.pc = "begin", !.acquired = TRUE]
                 ELSE [tx.t[i] EXCEPT !.pc = "done", !.raised = "connect"])

\* line 50: await client.query('BEGIN')
TxBegin(i, ok) ==
    /\ Running(i)
    /\ tx.t[i].pc = "begin"
    /\ TxSet(i, [tx.t[i] EXCEPT !.issued = Append(@, "BEGIN"),
                                !.pc = IF ok THEN "insertOrder" ELSE "rollback",
                                !.err = IF ok THEN "none" ELSE "begin"])

\* the callback has thrown e: the catch block of transaction is next
Thrown(rec, e) == [rec EXCEPT !.pc = "rollback", !.cbErr = TRUE, !.err = e]

\* orders.js lines 28-32: INSERT INTO orders
TxInsertOrder(i, ok) ==
    /\ Running(i)
    /\ tx.t[i].pc = "insertOrder"
    /\ TxSet(i, IF ok THEN [tx.t[i] EXCEPT !.pc = "select"] ELSE Thrown(tx.t[i], "callback"))

\* orders.js lines 42-54: SELECT price, stock_quantity and the stock test.  The
\* statement reads the committed row, or the row as this transaction changed it.
TxSelect(i, ok) ==
    /\ Running(i)
    /\ tx.t[i].pc = "select"
    /\ LET stock == IF tx.t[i].updated THEN tx.stock - tx.t[i].quantity ELSE tx.stock
       IN  TxSet(i, IF ~ok \/ stock < tx.t[i].quantity
                    THEN Thrown(tx.t[i], "callback")
                    ELSE [tx.t[i] EXCEPT !.pc = "insertItem", !.seen = stock])

\* orders.js lines 60-63: INSERT INTO order_items
TxInsertItem(i, ok) ==
    /\ Running(i)
    /\ tx.t[i].pc = "insertItem"
    /\ TxSet(i, IF ok THEN [tx.t[i] EXCEPT !.pc = "update"] ELSE Thrown(tx.t[i], "callback"))

\* orders.js lines 66-69: UPDATE products SET stock_quantity = stock_quantity - $1.
\* The statement waits for the row lock of another transaction and then works
\* on the row as that transaction left it; the lock is kept to the end of the
\* transaction.
TxUpdate(i, ok) ==
    /\ Running(i)
    /\ tx.t[i].pc = "update"
    /\ tx.lock \in {0, i}
    /\ IF ok /\ StockRule(tx.withCheck, tx.stock, tx.t[i].quantity)
       THEN tx' = [tx EXCEPT !.lock = i,
                             !.t[i] = [@ EXCEPT !.pc = "total", !.updated = TRUE]]
       ELSE tx' = [tx EXCEPT !.t[i] = Thrown(@, "callback")]
    /\ UNCHANGED <<cacheVars, cluster, proc, eh>>

\* orders.js lines 73-78: UPDATE orders SET total_amount, then the callback returns
TxTotal(i, ok) ==
    /\ Running(i)
    /\ tx.t[i].pc = "total"
    /\ TxSet(i, IF ok THEN [tx.t[i] EXCEPT !.pc = "commit"] ELSE Thrown(tx.t[i], "callback"))

\* the transaction ends on the server: its change of the row becomes the
\* committed row or is dropped, and its lock goes
Ended(i, commit) ==
    [tx EXCEPT !.stock = IF commit /\ tx.t[i].updated THEN @ - tx.t[i].quantity ELSE @,
               !.lock = IF @ = i THEN 0 ELSE @]

\* lines 52-53: await client.query('COMMIT'); return result
TxCommit(i, ok) ==
    /\ Running(i)
    /\ tx.t[i].pc = "commit"
    /\ tx' = IF ok
             THEN [Ended(i, TRUE) EXCEPT !.t[i] = [@ EXCEPT !.issued = Append(@, "COMMIT"),
                                                           !.committed = TRUE,
                                                           !.pc = "finally"]]
             ELSE [tx EXCEPT !.t[i] = [@ EXCEPT !.issued = Append(@, "COMMIT"),
                                               !.pc = "rollback", !.err = "commit"]]
    /\ UNCHANGED <<cacheVars, cluster, proc, eh>>

\* lines 54-56: await client.query('ROLLBACK'); throw error.  When ROLLBACK
\* itself raises, its error leaves the catch block and the throw is not reached.
TxRollback(i, ok) ==
    /\ Running(i)
    /\ tx.t[i].pc = "rollback"
    /\ tx' = [Ended(i, FALSE) EXCEPT !.t[i] = [@ EXCEPT !.issued = Append(@, "ROLLBACK"),
                                                        !.pc = "finally",
                                                        !.raised = IF ok THEN tx.t[i].err
                                                                          ELSE "rollback"]]
    /\ UNCHANGED <<cacheVars, cluster, proc, eh>>

\* lines 57-59: finally { client.release() }
TxFinally(i) ==
    /\ Running(i)
    /\ tx.t[i].pc = "finally"
    /\ TxSet(i, [tx.t[i] EXCEPT !.pc = "done", !.released = @ + 1])

TxNext ==
    \E i \in TxIds :
        \/ TxCall(i)
        \/ \E ok \in BOOLEAN :
              \/ TxConnect(i, ok)
              \/ TxBegin(i, ok)
              \/ TxInsertOrder(i, ok)
              \/ TxSelect(i, ok)
              \/ TxInsertItem(i, ok)
              \/ TxUpdate(i, ok)
              \/ TxTotal(i, ok)
              \/ TxCommit(i, ok)
              \/ TxRollback(i, ok)
        \/ TxFinally(i)

TxSpec == TxInit /\ [][TxNext]_vars

\* C32: the committed stock_quantity of the product is never negative, that
\* is, the quantities of the committed orders never add up to more than the
\* stock the product had before them.
C32_Orig == tx.pc = "orders" => tx.stock >= 0

\* C33: a finished transaction call has released the client it acquired
\* exactly once (and none when it acquired none); it has issued COMMIT only
\* when the callback returned without error; when the callback raised, it has
\* issued ROLLBACK and the caller gets the callback's error.
C33_Orig ==
    tx.pc = "orders" =>
        \A i \in TxIds :
            tx.t[i].pc = "done"
                => /\ tx.t[i].released = IF tx.t[i].acquired THEN 1 ELSE 0
                   /\ (\E n \in DOMAIN tx.t[i].issued : tx.t[i].issued[n] = "COMMIT")
                        => ~tx.t[i].cbErr
                   /\ tx.t[i].cbErr
                        => /\ \E n \in DOMAIN tx.t[i].issued : tx.t[i].issued[n] = "ROLLBACK"
                           /\ tx.t[i].raised = "callback"

----------------------------------------------------------------------------
(* Cluster mode: the workers forked by the master, one CacheManager each *)

MaxSiblings == 2

Siblings == 1..MaxSiblings

\* what the cluster did last: a GET answered by worker w, or a mutation that
\* worker w handled with its invalidatePattern calls
NoLast == [kind |-> "none", w |-> 0, by |-> "none", patterns |-> <<>>]

\* every worker requires middleware/cache.js for itself: the memory tiers are
\* separate and empty, Redis (reachable or not) and the database are shared
WorkersInit ==
    /\ boot = [pc |-> "listening", dbOk |-> TRUE, code |-> 0]
    /\ redisMode \in {"up", "down"}
    /\ now = 0
    /\ memData = EmptyMap
    /\ remote = EmptyMap
    /\ pending = <<>>
    /\ db = [f \in Families |-> MaxPayload]
    /\ req = IdleReq
    /\ wr = IdleWr
    /\ served = 0
    /\ stats = NoStats
    /\ redisConn = IdleConn
    /\ master = NoMaster
    /\ tx = NoTx
    /\ proc = NoProc
    /\ eh = NoErr
    /\ cluster = [pc |-> "serving", caches |-> [w \in Siblings |-> EmptyMap], last |-> NoLast]

\* the patterns of a route, invalidated one after the other
RECURSIVE InvalidateAll(_, _)
InvalidateAll(data, patterns) ==
    IF patterns = <<>> THEN data
    ELSE InvalidateAll(invalidatePattern(data, Head(patterns)), Tail(patterns))

\* Worker w takes a GET through cache(ttl) to its answer: its own memory tier,
\* then Redis with the backfill, then the route handler and the res.json
\* override.  The workers share no memory, so the steps of one request are
\* taken together.
WorkerGet(w, r) ==
    /\ cluster.pc = "serving"
    /\ LET key == generateKey(r)
           g == NC_get(cluster.caches[w], key, now)
           l == RedisLookup(r, g.data)
           body == db[r.family]
           st == NC_set(l.data, key, body, r.ttl, now)
           ans == CASE Truthy(g.ret) ->
                         [data |-> g.data, by |-> "memory", body |-> g.ret, store |-> FALSE]
                    [] ~Truthy(g.ret) /\ l.kind = "HIT-REDIS" ->
                         [data |-> l.data, by |-> "redis", body |-> l.body, store |-> FALSE]
                    [] ~Truthy(g.ret) /\ l.kind = "CATCH" ->
                         [data |-> l.data, by |-> "origin", body |-> Some(body), store |-> FALSE]
                    [] ~Truthy(g.ret) /\ l.kind = "MISS" /\ st.threw ->
                         [data |-> l.data, by |-> "finalhandler", body |-> Some(FinalBody),
                          store |-> FALSE]
                    [] ~Truthy(g.ret) /\ l.kind = "MISS" /\ ~st.threw ->
                         [data |-> st.data, by |-> "origin", body |-> Some(body), store |-> TRUE]
       IN  /\ cluster' = [cluster EXCEPT !.caches[w] = ans.data,
                                         !.last = [NoLast EXCEPT !.kind = "get", !.w = w,
                                                                 !.by = ans.by]]
           /\ remote' = IF ans.store /\ redisMode = "up"
                         THEN Put(remote, key, [s |-> Stringify(body), exp |-> now + r.ttl])
                         ELSE remote
    /\ UNCHANGED <<boot, redisMode, now, memData, pending, db, req, wr, served,
                   stats, redisConn, master, tx, proc, eh>>

\* Worker w handles a mutating route: the statement changes the rows, then the
\* route calls cache.invalidatePattern for each of its patterns, on the
\* CacheManager of worker w
WorkerMutate(w, route) ==
    /\ cluster.pc = "serving"
    /\ route.patterns # <<>>
    /\ \E nv \in [route.families \cap Families -> Payloads] :
          /\ \A f \in DOMAIN nv : nv[f] # db[f]
          /\ db' = [f \in Families |-> IF f \in DOMAIN nv THEN nv[f] ELSE db[f]]
    /\ cluster' = [cluster EXCEPT !.caches[w] = InvalidateAll(@, route.patterns),
                                  !.last = [NoLast EXCEPT !.kind = "mutation", !.w = w,
                                                          !.patterns = route.patterns]]
    /\ UNCHANGED <<boot, redisMode, now, memData, remote, pending, req, wr, served,
                   stats, redisConn, master, tx, proc, eh>>

WorkersNext ==
    \/ \E w \in Siblings, r \in CachedRequests : WorkerGet(w, r)
    \/ \E w \in Siblings, route \in WriteRoutes : WorkerMutate(w, route)

WorkersSpec == WorkersInit /\ [][WorkersNext]_vars

\* C31: right after a worker has handled a mutation and called
\* invalidatePattern(p), the memory tier of no worker holds a live entry whose
\* key contains p.
C31_Orig ==
    [][(cluster'.last.kind = "mutation" /\ db' # db)
          => \A v \in Siblings : \A k \in DOMAIN cluster'.caches[v] :
                \A n \in DOMAIN cluster'.last.patterns :
                    Includes(k, cluster'.last.patterns[n])
                        => NC_expired(cluster'.caches[v][k], now')]_vars

----------------------------------------------------------------------------
(* Shutdown of the cluster master *)

MaxRespawn == 2      \* workers forked by the exit handler in one run
GraceStep == 2500    \* milliseconds between two looks at the clock

ShutdownGrace == 10000

\* the master has started its workers: alive are the worker ids, killed those
\* that were sent SIGTERM and have not exited yet, forks counts cluster.fork()
\* calls, respawned those made after shutdown() began
MasterInit ==
    /\ boot = [pc |-> "dbQuery", dbOk |-> FALSE, code |-> 0]
    /\ redisMode = "up"
    /\ now = 0
    /\ memData = EmptyMap
    /\ remote = EmptyMap
    /\ pending = <<>>
    /\ db = [f \in Families |-> 0]
    /\ req = IdleReq
    /\ wr = IdleWr
    /\ served = 0
    /\ stats = NoStats
    /\ redisConn = IdleConn
    /\ cluster = NoCluster
    /\ tx = NoTx
    /\ proc = NoProc
    /\ eh = NoErr
    /\ master \in {[pc |-> "started", alive |-> 1..n, killed |-> {}, forks |-> n,
                     respawned |-> 0, elapsed |-> 0, code |-> 0] : n \in 1..MaxCpus}

\* process.on('SIGTERM' / 'SIGINT'): shutdown() sends SIGTERM to every worker of
\* cluster.workers and sets the 10 s timer
MasterSignal ==
    /\ master.pc \in {"started", "shutdown"}
    /\ master.pc = "started" \/ master.killed # master.alive
    /\ master' = [master EXCEPT !.pc = "shutdown", !.killed = master.alive]
    /\ UNCHANGED <<serverVars, cluster, tx, proc, eh>>

\* cluster.on('exit'): a worker has exited, by itself or after the SIGTERM of
\* shutdown(); the handler forks a new worker
WorkerExit(w) ==
    /\ master.pc \in {"started", "shutdown"}
    /\ w \in master.alive
    /\ master.forks < MaxCpus + MaxRespawn
    /\ master' = [master EXCEPT !.alive = (@ \ {w}) \cup {master.forks + 1},
                                !.killed = @ \ {w},
                                !.forks = @ + 1,
                                !.respawned = IF master.pc = "shutdown" THEN @ + 1 ELSE @]
    /\ UNCHANGED <<serverVars, cluster, tx, proc, eh>>

\* time passes while the timer of shutdown() runs
MasterTick ==
    /\ master.pc = "shutdown"
    /\ master.elapsed < ShutdownGrace
    /\ master' = [master EXCEPT !.elapsed = @ + GraceStep]
    /\ UNCHANGED <<serverVars, cluster, tx, proc, eh>>

\* the timer of shutdown() fires: process.exit(1)
MasterTimer ==
    /\ master.pc = "shutdown"
    /\ master.elapsed >= ShutdownGrace
    /\ master' = [master EXCEPT !.pc = "exited", !.code = 1]
    /\ UNCHANGED <<serverVars, cluster, tx, proc, eh>>

MasterNext ==
    \/ MasterSignal
    \/ \E w \in 1..(MaxCpus + MaxRespawn) : WorkerExit(w)
    \/ MasterTick
    \/ MasterTimer

MasterSpec == MasterInit /\ [][MasterNext]_vars

\* C34: once the master has begun its shutdown no worker is forked any more, and
\* when the master exits after every worker it killed has stopped, it exits
\* with code 0.
C34_Orig ==
    [][/\ master.pc = "shutdown" => master'.forks = master.forks
       /\ (master'.pc = "exited" /\ master'.killed = {}) => master'.code = 0]_vars

----------------------------------------------------------------------------
(* Shutdown of a worker: HighPerformanceAPI.shutdown(server) *)

MaxSignals == 3      \* SIGTERM / SIGINT deliveries to one worker
MaxConns == 2        \* connections open when the first signal arrives

\* the worker is listening.  signals counts shutdown() calls and waiting those
\* whose server.close callback has not run yet; order lists the components
\* shut down so far; ending says pool.end() has been called; chain is where the
\* callback that called it stands.
ProcInit ==
    /\ Parked
    /\ cluster = NoCluster
    /\ tx = NoTx
    /\ eh = NoErr
    /\ proc \in {[pc |-> "running", signals |-> 0, waiting |-> 0, conns |-> n,
                   order |-> <<>>, ending |-> FALSE, chain |-> "none",
                   stepFailed |-> FALSE, elapsed |-> 0, code |-> 0] : n \in 0..MaxConns}

ProcSet(rec) ==
    /\ proc' = rec
    /\ UNCHANGED <<cacheVars, cluster, tx, eh>>

\* process.exit(code)
Exit(code) == [proc EXCEPT !.pc = "exited", !.code = code]

\* process.on('SIGTERM' / 'SIGINT'): shutdown(server) calls server.close(cb),
\* which stops the listening on the first call and on every call registers cb
\* for the 'close' event, and sets a 10 s timer
ProcSignal ==
    /\ proc.pc \in {"running", "shutdown"}
    /\ proc.signals < MaxSignals
    /\ ProcSet([proc EXCEPT !.pc = "shutdown",
                            !.signals = @ + 1,
                            !.waiting = @ + 1,
                            !.order = IF proc.pc = "running" THEN <<"close">> ELSE @])

\* a client ends its connection
ConnCloses ==
    /\ proc.pc \in {"running", "shutdown"}
    /\ proc.conns > 0
    /\ ProcSet([proc EXCEPT !.conns = @ - 1])

\* lines 313-315: the server has closed and a callback of server.close runs up
\* to its await dbPool.end().  pool.end() of a pool that is ending rejects
\* ("Called end on pool more than once"): the catch block exits with 1.
CloseCallback ==
    /\ proc.pc = "shutdown"
    /\ proc.conns = 0
    /\ proc.waiting > 0
    /\ ProcSet(IF proc.ending
               THEN Exit(1)
               ELSE [proc EXCEPT !.waiting = @ - 1, !.ending = TRUE, !.chain = "dbEnd"])

\* lines 315-316: dbPool.end() has settled; await redisClient.disconnect() is next
DbEnded(ok) ==
    /\ proc.pc = "shutdown"
    /\ proc.chain = "dbEnd"
    /\ ProcSet(IF ok
               THEN [proc EXCEPT !.chain = "redis", !.order = Append(@, "dbEnd")]
               ELSE [Exit(1) EXCEPT !.stepFailed = TRUE])

\* lines 316-322: redisClient.disconnect() has settled: process.exit(0), or
\* process.exit(1) from the catch block
RedisDisconnected(ok) ==
    /\ proc.pc = "shutdown"
    /\ proc.chain = "redis"
    /\ ProcSet(IF ok
               THEN [Exit(0) EXCEPT !.chain = "done", !.order = Append(@, "redis")]
               ELSE [Exit(1) EXCEPT !.stepFailed = TRUE])

\* time passes while the timer of the first shutdown() runs
ProcTick ==
    /\ proc.pc = "shutdown"
    /\ proc.elapsed < ShutdownGrace
    /\ ProcSet([proc EXCEPT !.elapsed = @ + GraceStep])

\* lines 326-329: the timer fires: process.exit(1)
ProcTimer ==
    /\ proc.pc = "shutdown"
    /\ proc.elapsed >= ShutdownGrace
    /\ ProcSet(Exit(1))

ProcNext ==
    \/ ProcSignal
    \/ ConnCloses
    \/ CloseCallback
    \/ \E ok \in BOOLEAN : DbEnded(ok)
    \/ \E ok \in BOOLEAN : RedisDisconnected(ok)
    \/ ProcTick
    \/ ProcTimer

ProcSpec == ProcInit /\ [][ProcNext]_vars

\* C35: a worker that has exited after a signal did so within 10 seconds of it;
\* it exited with 0 exactly when it had stopped listening, closed the pool and
\* disconnected Redis, in this order and once each; and it exited with 1 only
\* because one of these steps failed or the 10 seconds ran out, however many
\* signals arrived.
C35_Orig ==
    proc.pc = "exited"
        => /\ proc.elapsed <= ShutdownGrace
           /\ proc.code = 0 <=> proc.order = <<"close", "dbEnd", "redis">>
           /\ proc.code = 1 => proc.stepFailed \/ proc.elapsed >= ShutdownGrace
====
